---- MODULE Spec2Model ----
(***************************************************************************)
(* TimerLib (src/TimerLib.c): a time base derived from a free-running      *)
(* hardware counter that wraps at arr_value, an overflow counter advanced  *)
(* by the update interrupt, lock-free double-read sampling, interval and   *)
(* timestamp queries and busy-wait delays.                                 *)
(*                                                                         *)
(* Scale.  TLC's integers are 32-bit, so the machine words and the unit    *)
(* factors of the source are scaled down together:                         *)
(*   uint32_t arithmetic is arithmetic modulo U32 = 2^U32Bits,             *)
(*   uint64_t arithmetic is arithmetic modulo U64 = U32 * U32,             *)
(*   the factor 1000 is Kilo, 1000000 is USEC = Kilo^2 and 1000000000 is   *)
(*   NSEC = Kilo^3 (NSEC < U32 as 10^9 < 2^32).                            *)
(* Every computation keeps the width the C expression has.                 *)
(*                                                                         *)
(* The hardware counter counts in [0, arr_value); the update interrupt     *)
(* (TimerLib_HandleUpdateIRQ) runs once per wrap and pre-empts the reader, *)
(* so a wrap and its notification form one step that may fall between any  *)
(* two steps of a reader.  wraps, g, hg and lastTs are history variables:  *)
(* they record the true time and are never read by the modelled code.      *)
(***************************************************************************)
EXTENDS Integers, Sequences, FiniteSets, TLC

\* ---------------------------------------------------------------- scale
Kilo == 3
U32Bits == 5

\* ---------------------------------------------------------------- bounds
\* Wraps the hardware may perform in each specification.
MaxWraps == 12
MaxWrapsHandles == 2
MaxWrapsStamp == 34
MaxWrapsDelay == 3
MaxWrapsQueries == 11
MaxWrapsUnits == 10
MaxWrapsRetry == 3

MSEC == Kilo
USEC == Kilo * Kilo
NSEC == Kilo * Kilo * Kilo
U32 == 2 ^ U32Bits
U64 == U32 * U32

u32(x) == x % U32
u64(x) == x % U64

Handles == {"A", "B"}

VARIABLES
    arr_value,          \* static uint32_t arr_value
    clock_freq,         \* static uint32_t clock_freq
    overflow_counter,   \* static volatile uint32_t overflow_counter
    optim,              \* the optim struct
    cnt,                \* the hardware counter, read by get_current_cnt()
    htim,               \* the callers' TimerLib_Handle objects
    pc,                 \* position of the reader
    op,                 \* the call in progress: name, handle, argument
    loc,                \* the locals of the call in progress
    ret,                \* the value the call returns (while pc = "ret")
    cfg_status,         \* how TimerLib_GlobalInit ended
    wraps,              \* history: wraps of the hardware counter since init
    g,                  \* history: true time of the samples of this call
    hg,                 \* history: true time of each handle's baseline
    lastTs              \* history: result of the last completed timestamp call

vars == << arr_value, clock_freq, overflow_counter, optim, cnt, htim, pc, op,
           loc, ret, cfg_status, wraps, g, hg, lastTs >>

config == << arr_value, clock_freq, optim >>

NoOp == [name |-> "none", h |-> "A", arg |-> 0]

LocInit == [ovf |-> 0, cnt |-> 0, start_ovf |-> 0, start_cnt |-> 0,
            delay_ticks |-> 0, elapsed |-> 0, ticks |-> 0, phase |-> "first"]

\* cntW, ovfAtCnt: the true wrap count and the overflow counter at the
\* instant loc.cnt was read; startW: the true wrap count of the baseline
\* sample of a delay; iters: 1 once an iteration of a sampling loop of the
\* call was repeated; trueDelta: ticks between a handle's baseline and the
\* sample; polls: polls of a delay that evaluated the elapsed formula.
\* For a call whose sampling loop is watched: tries, the iterations that were
\* repeated; loopW and iterW, the true wrap count at the first overflow read
\* of the loop and of its current iteration.
GInit == [cntW |-> 0, ovfAtCnt |-> 0, startW |-> 0, iters |-> 0,
          trueDelta |-> 0, polls |-> 0,
          watch |-> FALSE, tries |-> 0, loopW |-> 0, iterW |-> 0]

HgInit == [h \in Handles |-> [baseW |-> -1, lost |-> 0]]

OptimZero == [us_optimized |-> FALSE, us_per_tick |-> 0, ns_optimized |-> FALSE,
              ns_per_tick |-> 0, overflowPreMS |-> 0]

\* Statics are zero-initialised; no handle has been initialised.
Init ==
    /\ arr_value = 0
    /\ clock_freq = 0
    /\ overflow_counter = 0
    /\ optim = OptimZero
    /\ cnt = 0
    /\ htim = [h \in Handles |-> [last_cnt |-> 0, last_overflow |-> 0]]
    /\ pc = "boot"
    /\ op = NoOp
    /\ loc = LocInit
    /\ ret = 0
    /\ cfg_status = "none"
    /\ wraps = 0
    /\ g = GInit
    /\ hg = HgInit
    /\ lastTs = -1

\* ------------------------------------------------------- configuration
\* The fields TimerLib_GlobalInit computes before its last division.
OptimOf(clk, old) ==
    [us_optimized |-> (clk % USEC = 0),
     us_per_tick |-> clk \div USEC,
     ns_optimized |-> (clk % NSEC = 0),
     ns_per_tick |-> IF clk % NSEC = 0 THEN clk \div NSEC ELSE old.ns_per_tick,
     overflowPreMS |-> old.overflowPreMS]

\* TimerLib_GlobalInit(arr, clk) with arr # 0: returns void, reports nothing.
TimerLib_GlobalInit(arr, clk) ==
    /\ pc = "boot"
    /\ arr # 0
    /\ arr_value' = arr
    /\ clock_freq' = clk
    /\ overflow_counter' = 0
    /\ optim' = [OptimOf(clk, optim) EXCEPT
                    !.overflowPreMS = (clk \div arr) \div MSEC]
    /\ cfg_status' = "void"
    /\ pc' = "idle"
    /\ UNCHANGED << cnt, htim, op, loc, ret, wraps, g, hg, lastTs >>

\* TimerLib_GlobalInit called again between two operations: the statics are
\* written again, the hardware counter and the handles are not touched.  The
\* notifications are counted from here on and every handle needs
\* TimerLib_InitHandle again.
TimerLib_GlobalInit_Again(arr, clk) ==
    /\ pc = "idle"
    /\ arr # 0
    /\ cnt < arr
    /\ arr_value' = arr
    /\ clock_freq' = clk
    /\ overflow_counter' = 0
    /\ optim' = [OptimOf(clk, optim) EXCEPT
                    !.overflowPreMS = (clk \div arr) \div MSEC]
    /\ cfg_status' = "void"
    /\ wraps' = 0
    /\ hg' = HgInit
    /\ lastTs' = -1
    /\ UNCHANGED << cnt, htim, pc, op, loc, ret, g >>

\* What clk_freq / 0 may yield: the quotient register of a core that does not
\* trap (0 on Cortex-M, all ones elsewhere).
Div0Values == {0, U32 - 1}

\* TimerLib_GlobalInit(0, clk): the division by arr_value is undefined; the
\* build either traps there or continues with an arbitrary quotient.
TimerLib_GlobalInit_Div0(clk, trap, q) ==
    /\ pc = "boot"
    /\ arr_value' = 0
    /\ clock_freq' = clk
    /\ overflow_counter' = 0
    /\ optim' = IF trap THEN OptimOf(clk, optim)
                ELSE [OptimOf(clk, optim) EXCEPT !.overflowPreMS = q \div MSEC]
    /\ cfg_status' = IF trap THEN "div0_trap" ELSE "div0_void"
    /\ pc' = IF trap THEN "fault" ELSE "idle"
    /\ UNCHANGED << cnt, htim, op, loc, ret, wraps, g, hg, lastTs >>

\* ------------------------------------------------------------ hardware
\* One tick of the counter below the reload value.
CounterTick ==
    /\ pc \notin {"boot", "fault"}
    /\ arr_value > 0
    /\ cnt + 1 < arr_value
    /\ cnt' = cnt + 1
    /\ UNCHANGED << arr_value, clock_freq, overflow_counter, optim, htim, pc,
                    op, loc, ret, cfg_status, wraps, g, hg, lastTs >>

\* TimerLib_HandleUpdateIRQ: overflow_counter++.
\* A notification that is lost.
TimerLib_HandleUpdateIRQ_Lost(ovf) == ovf

TimerLib_HandleUpdateIRQ_Saturating(ovf) ==
    IF ovf = U32 - 1 THEN ovf ELSE ovf + 1

TimerLib_HandleUpdateIRQ(ovf) == u32(ovf + 1)

\* The tick that wraps the counter, with the update interrupt it raises.
CounterWrap(maxw) ==
    /\ pc \notin {"boot", "fault"}
    /\ arr_value > 0
    /\ cnt + 1 = arr_value
    /\ wraps < maxw
    /\ cnt' = 0
    /\ wraps' = wraps + 1
    /\ overflow_counter' = TimerLib_HandleUpdateIRQ(overflow_counter)
    /\ UNCHANGED << arr_value, clock_freq, optim, htim, pc, op, loc, ret,
                    cfg_status, g, hg, lastTs >>

\* ------------------------------------------------------------ sampling
\* do { ovf = overflow_counter; cnt = get_current_cnt(); }
\* while (ovf != overflow_counter);
SampleReadOvf ==
    /\ pc = "s_ovf"
    /\ loc' = [loc EXCEPT !.ovf = overflow_counter]
    /\ g' = IF g.watch
            THEN [g EXCEPT !.iterW = wraps,
                           !.loopW = IF g.tries = 0 THEN wraps ELSE g.loopW]
            ELSE g
    /\ pc' = "s_cnt"
    /\ UNCHANGED << arr_value, clock_freq, overflow_counter, optim, cnt, htim,
                    op, ret, cfg_status, wraps, hg, lastTs >>

SampleReadCnt ==
    /\ pc = "s_cnt"
    /\ loc' = [loc EXCEPT !.cnt = cnt]
    /\ g' = [g EXCEPT !.cntW = wraps, !.ovfAtCnt = overflow_counter]
    /\ pc' = "s_chk"
    /\ UNCHANGED << arr_value, clock_freq, overflow_counter, optim, cnt, htim,
                    op, ret, cfg_status, wraps, hg, lastTs >>

\* The loop condition: TRUE repeats the loop.
SampleRetryWrong(ovf, now) == FALSE

SampleRetryBlocking(ovf, now) == ovf <= now

SampleRetry(ovf, now) == ovf # now

SampleCheck ==
    /\ pc = "s_chk"
    /\ pc' = IF SampleRetry(loc.ovf, overflow_counter) THEN "s_ovf" ELSE "body"
    /\ g' = IF SampleRetry(loc.ovf, overflow_counter)
            THEN [g EXCEPT !.iters = 1,
                           !.tries = IF g.watch THEN g.tries + 1 ELSE 0]
            ELSE g
    /\ UNCHANGED << arr_value, clock_freq, overflow_counter, optim, cnt, htim,
                    op, loc, ret, cfg_status, wraps, hg, lastTs >>

\* True ticks since TimerLib_GlobalInit at the instant loc.cnt was read.
SampleTime == g.cntW * arr_value + loc.cnt

\* ------------------------------------------------------------ calls
Configured == pc = "idle" /\ arr_value > 0 /\ clock_freq > 0

Call(o) ==
    /\ Configured
    /\ op' = o
    /\ loc' = LocInit
    /\ g' = GInit
    /\ pc' = "s_ovf"
    /\ UNCHANGED << arr_value, clock_freq, overflow_counter, optim, cnt, htim,
                    ret, cfg_status, wraps, hg, lastTs >>

\* A call whose sampling loop is watched.
CallWatched(o) ==
    /\ Configured
    /\ op' = o
    /\ loc' = LocInit
    /\ g' = [GInit EXCEPT !.watch = TRUE]
    /\ pc' = "s_ovf"
    /\ UNCHANGED << arr_value, clock_freq, overflow_counter, optim, cnt, htim,
                    ret, cfg_status, wraps, hg, lastTs >>

\* The call returns to the caller.
Return ==
    /\ pc = "ret"
    /\ pc' = "idle"
    /\ lastTs' = IF op.name = "GetTimestamp_us" THEN ret ELSE lastTs
    /\ op' = NoOp
    /\ loc' = LocInit
    /\ g' = GInit
    /\ ret' = 0
    /\ UNCHANGED << arr_value, clock_freq, overflow_counter, optim, cnt, htim,
                    cfg_status, wraps, hg >>

\* ------------------------------------------------------------ handles
\* htim->last_cnt = cnt; htim->last_overflow = ovf;
StoreBaselineShared(ht, h, c, o) ==
    [k \in Handles |-> [last_cnt |-> c, last_overflow |-> o]]

StoreBaseline(ht, h, c, o) ==
    [ht EXCEPT ![h] = [last_cnt |-> c, last_overflow |-> o]]

CallInitHandle(h) == Call([name |-> "InitHandle", h |-> h, arg |-> 0])

TimerLib_InitHandle ==
    /\ pc = "body"
    /\ op.name = "InitHandle"
    /\ htim' = StoreBaseline(htim, op.h, loc.cnt, loc.ovf)
    /\ hg' = [hg EXCEPT ![op.h] = [baseW |-> g.cntW, lost |-> 0]]
    /\ ret' = 0
    /\ pc' = "ret"
    /\ UNCHANGED << arr_value, clock_freq, overflow_counter, optim, cnt, op,
                    loc, cfg_status, wraps, g, lastTs >>

\* calculate_ticks: the value returned for baseline b and sample (c, o).
delta_cnt(b, c) ==
    IF c >= b.last_cnt THEN u32(c - b.last_cnt)
    ELSE u32(u32(arr_value - b.last_cnt) + c)

delta_ovf_NoBorrow(b, c, o) == u32(o - b.last_overflow)

delta_ovf(b, c, o) ==
    IF c >= b.last_cnt THEN u32(o - b.last_overflow)
    ELSE u32(o - b.last_overflow - 1)

calculate_ticks(b, c, o) ==
    u32(delta_ovf(b, c, o) * arr_value + delta_cnt(b, c))

\* Ticks to microseconds, result type uint32_t (TimerLib_GetInterval_us):
\* ticks / optim.us_per_tick, or (uint64_t)ticks * 1000000 / clock_freq.
Interval_us_Exact(ticks) == ticks \div optim.us_per_tick

Interval_us_Scaled_Narrow(ticks) == u32(u32(ticks * USEC) \div clock_freq)

Interval_us_Scaled(ticks) == u32(u64(ticks * USEC) \div clock_freq)

Interval_us(ticks) ==
    IF optim.us_optimized THEN Interval_us_Exact(ticks)
    ELSE Interval_us_Scaled(ticks)

CallGetInterval_us(h) ==
    /\ hg[h].baseW >= 0
    /\ Call([name |-> "GetInterval_us", h |-> h, arg |-> 0])

TimerLib_GetInterval_us ==
    /\ pc = "body"
    /\ op.name = "GetInterval_us"
    /\ LET b == htim[op.h]
           t == calculate_ticks(b, loc.cnt, loc.ovf)
           true == SampleTime - (hg[op.h].baseW * arr_value + b.last_cnt)
       IN /\ loc' = [loc EXCEPT !.ticks = t]
          /\ htim' = StoreBaseline(htim, op.h, loc.cnt, loc.ovf)
          /\ g' = [g EXCEPT !.trueDelta = true]
          /\ hg' = [hg EXCEPT ![op.h] = [baseW |-> g.cntW,
                                         lost |-> hg[op.h].lost + true - t]]
          /\ ret' = Interval_us(t)
    /\ pc' = "ret"
    /\ UNCHANGED << arr_value, clock_freq, overflow_counter, optim, cnt, op,
                    cfg_status, wraps, lastTs >>

\* ------------------------------------------------------------ timestamps
\* calculate_Timestamp: (uint64_t)current_ovf * arr_value + current_cnt.
calculate_Timestamp_NoCast(c, o) == u32(o * arr_value + c)

calculate_Timestamp(c, o) == u64(o * arr_value + c)

\* Ticks to microseconds, result type uint64_t (TimerLib_GetTimestamp_us).
Timestamp_us(ticks) ==
    IF optim.us_optimized THEN ticks \div optim.us_per_tick
    ELSE u64(ticks * USEC) \div clock_freq

CallGetTimestamp_us == Call([name |-> "GetTimestamp_us", h |-> "A", arg |-> 0])

\* A timestamp that keeps its sample as the baseline of a handle.
TimerLib_GetTimestamp_us_ResetOnRead ==
    /\ pc = "body"
    /\ op.name = "GetTimestamp_us"
    /\ loc' = [loc EXCEPT !.ticks = calculate_Timestamp(loc.cnt, loc.ovf)]
    /\ ret' = Timestamp_us(calculate_Timestamp(loc.cnt, loc.ovf))
    /\ htim' = StoreBaseline(htim, op.h, loc.cnt, loc.ovf)
    /\ pc' = "ret"
    /\ UNCHANGED << arr_value, clock_freq, overflow_counter, optim, cnt,
                    op, cfg_status, wraps, g, hg, lastTs >>

TimerLib_GetTimestamp_us ==
    /\ pc = "body"
    /\ op.name = "GetTimestamp_us"
    /\ loc' = [loc EXCEPT !.ticks = calculate_Timestamp(loc.cnt, loc.ovf)]
    /\ ret' = Timestamp_us(calculate_Timestamp(loc.cnt, loc.ovf))
    /\ pc' = "ret"
    /\ UNCHANGED << arr_value, clock_freq, overflow_counter, optim, cnt, htim,
                    op, cfg_status, wraps, g, hg, lastTs >>

\* ------------------------------------------------------------ units
\* Ticks to nanoseconds, result type uint32_t (TimerLib_GetInterval_ns):
\* ticks / optim.ns_per_tick, or (uint64_t)ticks * 1000000000 / clock_freq.
Interval_ns_Exact(ticks) == ticks \div optim.ns_per_tick

Interval_ns_Scaled(ticks) == u32(u64(ticks * NSEC) \div clock_freq)

Interval_ns(ticks) ==
    IF optim.ns_optimized THEN Interval_ns_Exact(ticks)
    ELSE Interval_ns_Scaled(ticks)

\* A float or double result: an integer count times a power of Kilo
\* (1e-6 is Kilo^-2, 1e-9 is Kilo^-3; a bare integer has exponent 0).
Real(m, e) == [mant |-> m, exp |-> e]

\* return ticks / optim.us_per_tick * 1e-6f;  return ticks / clock_freq * 1e-6f;
Interval_sf(ticks) ==
    IF optim.us_optimized THEN Real(ticks \div optim.us_per_tick, -2)
    ELSE Real(ticks \div clock_freq, -2)

\* return ticks / optim.ns_per_tick * 1e-9;  return ticks / clock_freq * 1e-9;
Interval_df(ticks) ==
    IF optim.ns_optimized THEN Real(ticks \div optim.ns_per_tick, -3)
    ELSE Real(ticks \div clock_freq, -3)

\* return ticks / optim.us_per_tick;  return ticks / clock_freq * 1e-6f;
Timestamp_sf(ticks) ==
    IF optim.us_optimized THEN Real(ticks \div optim.us_per_tick, 0)
    ELSE Real(ticks \div clock_freq, -2)

\* return ticks / optim.us_per_tick * 1e-9;  return ticks / clock_freq * 1e-9;
Timestamp_df(ticks) ==
    IF optim.us_optimized THEN Real(ticks \div optim.us_per_tick, -3)
    ELSE Real(ticks \div clock_freq, -3)

IntervalNames ==
    {"GetInterval_us", "GetInterval_ns", "GetInterval_sf", "GetInterval_df"}

CallGetInterval_ns(h) ==
    /\ hg[h].baseW >= 0
    /\ Call([name |-> "GetInterval_ns", h |-> h, arg |-> 0])

CallGetInterval_sf(h) ==
    /\ hg[h].baseW >= 0
    /\ Call([name |-> "GetInterval_sf", h |-> h, arg |-> 0])

CallGetInterval_df(h) ==
    /\ hg[h].baseW >= 0
    /\ Call([name |-> "GetInterval_df", h |-> h, arg |-> 0])

CallGetTimestamp_sf == Call([name |-> "GetTimestamp_sf", h |-> "A", arg |-> 0])

CallGetTimestamp_df == Call([name |-> "GetTimestamp_df", h |-> "A", arg |-> 0])

\* The conversion each query applies to its ticks.
Convert(name, ticks) ==
    CASE name = "GetInterval_ns" -> Interval_ns(ticks)
      [] name = "GetInterval_sf" -> Interval_sf(ticks)
      [] name = "GetInterval_df" -> Interval_df(ticks)
      [] name = "GetTimestamp_sf" -> Timestamp_sf(ticks)
      [] OTHER -> Timestamp_df(ticks)

\* An interval query in another unit: calculate_ticks, then its conversion.
IntervalQuery(name) ==
    /\ pc = "body"
    /\ op.name = name
    /\ LET b == htim[op.h]
           t == calculate_ticks(b, loc.cnt, loc.ovf)
           true == SampleTime - (hg[op.h].baseW * arr_value + b.last_cnt)
       IN /\ loc' = [loc EXCEPT !.ticks = t]
          /\ htim' = StoreBaseline(htim, op.h, loc.cnt, loc.ovf)
          /\ g' = [g EXCEPT !.trueDelta = true]
          /\ hg' = [hg EXCEPT ![op.h] = [baseW |-> g.cntW,
                                         lost |-> hg[op.h].lost + true - t]]
          /\ ret' = Convert(name, t)
    /\ pc' = "ret"
    /\ UNCHANGED << arr_value, clock_freq, overflow_counter, optim, cnt, op,
                    cfg_status, wraps, lastTs >>

TimerLib_GetInterval_ns == IntervalQuery("GetInterval_ns")

TimerLib_GetInterval_sf == IntervalQuery("GetInterval_sf")

TimerLib_GetInterval_df == IntervalQuery("GetInterval_df")

\* A timestamp query in seconds: calculate_Timestamp, then its conversion.
TimestampQuery(name) ==
    /\ pc = "body"
    /\ op.name = name
    /\ loc' = [loc EXCEPT !.ticks = calculate_Timestamp(loc.cnt, loc.ovf)]
    /\ ret' = Convert(name, calculate_Timestamp(loc.cnt, loc.ovf))
    /\ pc' = "ret"
    /\ UNCHANGED << arr_value, clock_freq, overflow_counter, optim, cnt, htim,
                    op, cfg_status, wraps, g, hg, lastTs >>

TimerLib_GetTimestamp_sf == TimestampQuery("GetTimestamp_sf")

TimerLib_GetTimestamp_df == TimestampQuery("GetTimestamp_df")

\* ------------------------------------------------------------ delays
DelayNames == {"DelayNS", "DelayUS", "DelayUS_32", "DelayUS_32Short"}

\* The target tick count each delay computes from its argument.
DelayTicks_NS(ns) == u64(ns * clock_freq) \div NSEC

DelayTicks_US(us) ==
    IF optim.us_optimized THEN u32(us * optim.us_per_tick)
    ELSE u64(us * clock_freq) \div USEC

DelayTicks_US_32(us) ==
    IF optim.us_optimized THEN u32(us * optim.us_per_tick)
    ELSE u32(us * clock_freq) \div USEC

DelayTicks_Short(us) == u32(us * optim.us_per_tick)

DelayTicks(name, arg) ==
    CASE name = "DelayNS" -> DelayTicks_NS(arg)
      [] name = "DelayUS" -> DelayTicks_US(arg)
      [] name = "DelayUS_32" -> DelayTicks_US_32(arg)
      [] OTHER -> DelayTicks_Short(arg)

\* The elapsed ticks a poll computes, a uint32_t expression in every delay.
Elapsed(s_ovf, s_cnt, c_ovf, c_cnt) ==
    IF c_ovf = s_ovf THEN u32(c_cnt - s_cnt)
    ELSE u32(u32(arr_value - s_cnt) + u32(u32(c_ovf - s_ovf - 1) * arr_value)
             + c_cnt)

Elapsed_Short(s_ovf, s_cnt, c_ovf, c_cnt) ==
    IF c_ovf > s_ovf THEN u32(u32(arr_value - s_cnt) + c_cnt)
    ELSE u32(c_cnt - s_cnt)

\* if (!(optim.us_optimized && us < 1000 && optim.overflowPreMS <= 1)) return -1;
ShortAcceptsAnyLength(us) == optim.us_optimized /\ optim.overflowPreMS <= 1

ShortAccepts(us) ==
    optim.us_optimized /\ us < MSEC /\ optim.overflowPreMS <= 1

CallDelay(name, arg) == Call([name |-> name, h |-> "A", arg |-> arg])

\* The baseline sample is taken; the target is computed.
DelayStart ==
    /\ pc = "body"
    /\ op.name \in DelayNames \ {"DelayUS_32Short"}
    /\ loc.phase = "first"
    /\ loc' = [loc EXCEPT !.start_ovf = loc.ovf, !.start_cnt = loc.cnt,
                          !.delay_ticks = DelayTicks(op.name, op.arg),
                          !.phase = "poll"]
    /\ g' = [g EXCEPT !.startW = g.cntW]
    /\ pc' = "s_ovf"
    /\ UNCHANGED << arr_value, clock_freq, overflow_counter, optim, cnt, htim,
                    op, ret, cfg_status, wraps, hg, lastTs >>

\* TimerLib_DelayUS_32Short after its baseline sample: reject or start.
DelayShortStart ==
    /\ pc = "body"
    /\ op.name = "DelayUS_32Short"
    /\ loc.phase = "first"
    /\ loc' = [loc EXCEPT !.start_ovf = loc.ovf, !.start_cnt = loc.cnt,
                          !.delay_ticks = IF ShortAccepts(op.arg)
                                          THEN DelayTicks_Short(op.arg) ELSE 0,
                          !.phase = IF ShortAccepts(op.arg)
                                    THEN "poll" ELSE "first"]
    /\ g' = [g EXCEPT !.startW = g.cntW]
    /\ ret' = IF ShortAccepts(op.arg) THEN ret ELSE -1
    /\ pc' = IF ShortAccepts(op.arg) THEN "s_ovf" ELSE "ret"
    /\ UNCHANGED << arr_value, clock_freq, overflow_counter, optim, cnt, htim,
                    op, cfg_status, wraps, hg, lastTs >>

\* One poll of while (1): compute elapsed, leave when the target is reached.
DelayPoll ==
    /\ pc = "body"
    /\ op.name \in DelayNames
    /\ loc.phase = "poll"
    /\ LET e == IF op.name = "DelayUS_32Short"
                THEN Elapsed_Short(loc.start_ovf, loc.start_cnt, loc.ovf, loc.cnt)
                ELSE Elapsed(loc.start_ovf, loc.start_cnt, loc.ovf, loc.cnt)
       IN /\ loc' = [loc EXCEPT !.elapsed = e]
          /\ pc' = IF e >= loc.delay_ticks THEN "ret" ELSE "s_ovf"
    /\ g' = [g EXCEPT !.polls = 1]
    /\ ret' = 0
    /\ UNCHANGED << arr_value, clock_freq, overflow_counter, optim, cnt, htim,
                    op, cfg_status, wraps, hg, lastTs >>

\* ------------------------------------------------------------ specifications
Sampling == SampleReadOvf \/ SampleReadCnt \/ SampleCheck

\* One handle, a long run of the counter.
NextInterval ==
    \/ \E clk \in {2 * USEC, USEC + Kilo} : TimerLib_GlobalInit(Kilo, clk)
    \/ CounterTick
    \/ CounterWrap(MaxWraps)
    \/ CallInitHandle("A")
    \/ CallGetInterval_us("A")
    \/ Sampling
    \/ TimerLib_InitHandle
    \/ TimerLib_GetInterval_us
    \/ Return

SpecInterval == Init /\ [][NextInterval]_vars

\* Two handles, a short run of the counter.
NextHandles ==
    \/ TimerLib_GlobalInit(Kilo, 2 * USEC)
    \/ CounterTick
    \/ CounterWrap(MaxWrapsHandles)
    \/ \E h \in Handles : CallInitHandle(h)
    \/ \E h \in Handles : CallGetInterval_us(h)
    \/ Sampling
    \/ TimerLib_InitHandle
    \/ TimerLib_GetInterval_us
    \/ Return

SpecHandles == Init /\ [][NextHandles]_vars

\* Timestamps over a run long enough for the overflow counter to wrap.
NextStamp ==
    \/ \E clk \in {2 * USEC, USEC + Kilo} : TimerLib_GlobalInit(Kilo - 1, clk)
    \/ CounterTick
    \/ CounterWrap(MaxWrapsStamp)
    \/ CallGetTimestamp_us
    \/ Sampling
    \/ TimerLib_GetTimestamp_us
    \/ Return

SpecStamp == Init /\ [][NextStamp]_vars

\* Every configuration a caller can pass, the invalid ones included.
NextInit ==
    \/ \E arr \in 1 .. U32 - 1, clk \in 0 .. U32 - 1 : TimerLib_GlobalInit(arr, clk)
    \/ \E clk \in 0 .. U32 - 1, trap \in BOOLEAN, q \in Div0Values :
            TimerLib_GlobalInit_Div0(clk, trap, q)

SpecInit == Init /\ [][NextInit]_vars

\* The delays.
DelayConfigs == { << Kilo + 2, 3 * USEC >>, << Kilo, 2 * USEC >>,
                  << Kilo + 1, USEC + Kilo >> }

DelayArgs == { Kilo - 1, Kilo, (U32 \div Kilo) + 1, U32 - 1 }

NextDelay ==
    \/ \E c \in DelayConfigs : TimerLib_GlobalInit(c[1], c[2])
    \/ CounterTick
    \/ CounterWrap(MaxWrapsDelay)
    \/ \E n \in DelayNames, a \in DelayArgs : CallDelay(n, a)
    \/ Sampling
    \/ DelayStart
    \/ DelayShortStart
    \/ DelayPoll
    \/ Return

SpecDelay == Init /\ [][NextDelay]_vars

\* One handle and the timestamp, a long run of the counter.
NextQueries ==
    \/ TimerLib_GlobalInit(Kilo, 3 * USEC)
    \/ CounterTick
    \/ CounterWrap(MaxWrapsQueries)
    \/ CallInitHandle("A")
    \/ CallGetInterval_us("A")
    \/ CallGetTimestamp_us
    \/ Sampling
    \/ TimerLib_InitHandle
    \/ TimerLib_GetInterval_us
    \/ TimerLib_GetTimestamp_us
    \/ Return

SpecQueries == Init /\ [][NextQueries]_vars

\* The spinning delays over a long run of the counter.
SpinNames == {"DelayNS", "DelayUS", "DelayUS_32"}
SpinArgs == {Kilo - 1}

NextSpin ==
    \/ TimerLib_GlobalInit(Kilo, 2 * USEC)
    \/ CounterTick
    \/ CounterWrap(MaxWraps)
    \/ \E name \in SpinNames, arg \in SpinArgs : CallDelay(name, arg)
    \/ Sampling
    \/ DelayStart
    \/ DelayPoll
    \/ Return

SpecSpin == Init /\ [][NextSpin]_vars

\* The queries in every unit, over the exact and the scaled clocks.
UnitClocks == {c \in {USEC, 2 * USEC, NSEC, USEC + Kilo} : c < U32}

NextUnits ==
    \/ \E clk \in UnitClocks : TimerLib_GlobalInit(Kilo, clk)
    \/ CounterTick
    \/ CounterWrap(MaxWrapsUnits)
    \/ CallInitHandle("A")
    \/ CallGetInterval_us("A")
    \/ CallGetInterval_ns("A")
    \/ CallGetInterval_sf("A")
    \/ CallGetInterval_df("A")
    \/ CallGetTimestamp_sf
    \/ CallGetTimestamp_df
    \/ Sampling
    \/ TimerLib_InitHandle
    \/ TimerLib_GetInterval_us
    \/ TimerLib_GetInterval_ns
    \/ TimerLib_GetInterval_sf
    \/ TimerLib_GetInterval_df
    \/ TimerLib_GetTimestamp_sf
    \/ TimerLib_GetTimestamp_df
    \/ Return

SpecUnits == Init /\ [][NextUnits]_vars

\* Readers, reconfiguration, and a run of the counter long enough for
\* overflow_counter to wrap around: a reload of 1, so that every tick of the
\* counter is a wrap.  TimerLib_DelayUS_32Short samples and then refuses this
\* configuration.
NextOwner ==
    \/ TimerLib_GlobalInit(1, USEC)
    \/ TimerLib_GlobalInit_Again(1, USEC)
    \/ CounterWrap(MaxWrapsStamp)
    \/ CallInitHandle("A")
    \/ CallGetInterval_us("A")
    \/ CallGetTimestamp_sf
    \/ CallDelay("DelayUS_32Short", Kilo - 1)
    \/ Sampling
    \/ TimerLib_InitHandle
    \/ TimerLib_GetInterval_us
    \/ TimerLib_GetTimestamp_sf
    \/ DelayShortStart
    \/ Return

SpecOwner == Init /\ [][NextOwner]_vars

\* The operations that sample once, their sampling loops watched.  The
\* caller keeps running: a step of the operation in progress is taken
\* whenever one stays possible.
NonDelayNames == {"InitHandle", "GetInterval_us", "GetTimestamp_us"}

ReaderStep ==
    \/ Sampling
    \/ TimerLib_InitHandle
    \/ TimerLib_GetInterval_us
    \/ TimerLib_GetTimestamp_us
    \/ Return

NextRetry ==
    \/ TimerLib_GlobalInit(Kilo, 2 * USEC)
    \/ CounterTick
    \/ CounterWrap(MaxWrapsRetry)
    \/ \E name \in NonDelayNames :
          /\ name = "GetInterval_us" => hg["A"].baseW >= 0
          /\ CallWatched([name |-> name, h |-> "A", arg |-> 0])
    \/ Sampling
    \/ TimerLib_InitHandle
    \/ TimerLib_GetInterval_us
    \/ TimerLib_GetTimestamp_us
    \/ Return

SpecRetry == Init /\ [][NextRetry]_vars /\ WF_vars(ReaderStep)

\* One handle over a run long enough for overflow_counter to wrap around,
\* with the smallest reload that lets the raw count regress.
LongReload == 2

NextLong ==
    \/ TimerLib_GlobalInit(LongReload, 2 * USEC)
    \/ CounterTick
    \/ CounterWrap(MaxWrapsStamp)
    \/ CallInitHandle("A")
    \/ CallGetInterval_us("A")
    \/ Sampling
    \/ TimerLib_InitHandle
    \/ TimerLib_GetInterval_us
    \/ Return

SpecLong == Init /\ [][NextLong]_vars

\* The whole program.
Next ==
    \/ NextInit
    \/ NextInterval
    \/ NextHandles
    \/ NextStamp
    \/ NextQueries
    \/ NextSpin
    \/ NextUnits
    \/ NextOwner
    \/ NextRetry
    \/ NextLong
    \/ NextDelay

Spec == Init /\ [][Next]_vars

\* ------------------------------------------------------------ claims
IntervalReturned == pc = "ret" /\ op.name = "GetInterval_us"
TimestampReturned == pc = "ret" /\ op.name = "GetTimestamp_us"
DelayReturned == pc = "ret" /\ op.name \in DelayNames /\ ret = 0

\* True ticks between the baseline sample of a delay and its current sample,
\* and between the baseline sample and the present.
StartTime == g.startW * arr_value + loc.start_cnt
TrueElapsed == SampleTime - StartTime
TrueElapsedNow == (wraps * arr_value + cnt) - StartTime

\* The ticks the requested duration corresponds to, in unbounded arithmetic.
RequiredTicks(name, arg) ==
    IF name = "DelayNS" THEN (arg * clock_freq) \div NSEC
    ELSE (arg * clock_freq) \div USEC

C2_ElapsedExact == IntervalReturned => loc.ticks = g.trueDelta

\* C8 (reset-on-read), as claimed: a query leaves the sample it used as the
\* baseline, and the tick deltas returned on a handle since its InitHandle sum
\* to the ticks the counter advanced from InitHandle to the last query.
C8_NoTickLost ==
    IntervalReturned =>
        /\ htim[op.h] = [last_cnt |-> loc.cnt, last_overflow |-> loc.ovf]
        /\ hg[op.h].lost = 0

\* C9 (handle independence): InitHandle or a query on one handle leaves every
\* other handle's baseline unchanged, and the ticks a query computes are a
\* function of that handle's own baseline and of the sample alone.
C9_HandleIndependence ==
    [][ (pc = "body" /\ op.name \in {"InitHandle", "GetInterval_us"}) =>
            /\ \A k \in Handles \ {op.h} : htim'[k] = htim[k]
            /\ (pc' = "ret" /\ op.name = "GetInterval_us") =>
                  loc'.ticks = u32((loc.ovf - htim[op.h].last_overflow) * arr_value
                                   + loc.cnt - htim[op.h].last_cnt) ]_vars

\* C9 witness: a query on A returned ticks while B, initialised, holds a
\* baseline of another instant.
C9_Witness ==
    /\ IntervalReturned
    /\ op.h = "A"
    /\ loc.ticks > 0
    /\ hg["B"].baseW >= 0
    /\ htim["B"] # htim["A"]

\* The timestamp arithmetic did not overflow its 64-bit accumulator.
NoAccumulatorOverflow ==
    /\ SampleTime < U64
    /\ optim.us_optimized \/ SampleTime * USEC < U64

\* C10 (monotonic time base), as claimed: a timestamp call that starts after
\* another has completed returns at least what that one returned, unless the
\* 64-bit accumulator overflowed.
C10_Monotonic ==
    (TimestampReturned /\ lastTs >= 0 /\ NoAccumulatorOverflow) => ret >= lastTs

\* C10, amended: the same, as long as fewer than 2^32 wraps have been notified
\* since TimerLib_GlobalInit (the 32-bit overflow counter has not wrapped).
C10_MonotonicUntilCounterWraps ==
    (TimestampReturned /\ lastTs >= 0 /\ NoAccumulatorOverflow /\ wraps < U32)
        => ret >= lastTs

\* C10 witness: a second timestamp, taken wraps after the first, is larger.
C10_Witness ==
    /\ TimestampReturned
    /\ lastTs >= 0
    /\ g.cntW > 1
    /\ wraps < U32
    /\ ret > lastTs

\* C7 (configuration validation), as claimed: TimerLib_GlobalInit with a zero
\* reload value or a zero frequency ends in a configuration error the caller
\* observes, and not in a division by zero.
C7_ConfigValidated ==
    (pc # "boot" /\ (arr_value = 0 \/ clock_freq = 0)) => cfg_status = "config_error"

\* C3 (delay lower bound), as claimed: a delay returns 0 only when the counter
\* has advanced, since the baseline sample, by at least the ticks of the
\* requested duration.
C3_DelayLowerBound ==
    DelayReturned => TrueElapsed >= RequiredTicks(op.name, op.arg)

\* C4 (delay completion), as claimed: the elapsed value of the polling loop,
\* a uint32_t, can reach the target the delay computed.
C4_TargetReachable ==
    (op.name \in {"DelayNS", "DelayUS", "DelayUS_32"} /\ loc.phase = "poll")
        => loc.delay_ticks <= U32 - 1

\* The preconditions of the short delay, in the terms of the configuration.
ShortSupported(us) ==
    /\ clock_freq % USEC = 0
    /\ us < MSEC
    /\ (clock_freq \div arr_value) \div MSEC <= 1

\* C5 (short-delay completion), as claimed: with the preconditions met, at
\* most one wrap occurs between the baseline sample and the return; the call
\* cannot return before the counter has advanced by the target, so at most
\* one wrap has occurred up to the instant the target is reached.
C5_AtMostOneWrap ==
    (/\ op.name = "DelayUS_32Short"
     /\ loc.phase = "poll"
     /\ ShortSupported(op.arg)
     /\ TrueElapsedNow <= loc.delay_ticks) => wraps - g.startW <= 1

\* C6 (short-delay rejection): with a precondition unmet, the call never
\* polls nor evaluates the elapsed formula, returns -1, and writes neither
\* the overflow counter nor the configuration.
C6_ShortRejects ==
    /\ [] ((op.name = "DelayUS_32Short" /\ ~ShortSupported(op.arg)) =>
              /\ g.polls = 0
              /\ loc.phase = "first"
              /\ loc.elapsed = 0
              /\ pc = "ret" => ret = -1)
    /\ [][ (op.name = "DelayUS_32Short" /\ ~ShortSupported(op.arg)
            /\ pc \in {"s_ovf", "s_cnt", "s_chk", "body"} /\ pc' # pc) =>
              /\ overflow_counter' = overflow_counter
              /\ config' = config
              /\ pc' \in {"s_ovf", "s_cnt", "s_chk", "body", "ret"} ]_vars

\* C6 witness: a request short enough, on an exact frequency, rejected because
\* more than one wrap per millisecond occurs.
C6_Witness ==
    /\ pc = "ret"
    /\ op.name = "DelayUS_32Short"
    /\ ret = -1
    /\ optim.us_optimized
    /\ op.arg < MSEC
    /\ optim.overflowPreMS > 1

\* C11: the absolute timestamp is cumulative.  A returned timestamp is the
\* conversion of overflow count * reload + raw count of its sample, computed
\* without truncation to 32 bits, and that is the number of ticks counted
\* since TimerLib_GlobalInit whatever queries were made before; no step of a
\* query writes the overflow counter, the configuration or the hardware
\* counter, and no step of a timestamp query writes a handle.
C11_TimestampCumulative ==
    /\ [] (TimestampReturned =>
             /\ loc.ticks = loc.ovf * arr_value + loc.cnt
             /\ loc.ticks = SampleTime
             /\ ret = IF clock_freq % USEC = 0
                        THEN loc.ticks \div (clock_freq \div USEC)
                        ELSE ((loc.ticks * USEC) % U64) \div clock_freq)
    /\ [][ (pc # "boot" /\ pc' # pc) =>
             /\ overflow_counter' = overflow_counter
             /\ config' = config
             /\ cnt' = cnt
             /\ (op.name = "GetTimestamp_us" \/ op'.name = "GetTimestamp_us")
                   => htim' = htim ]_vars

\* A timestamp of more than 2^32 ticks returned after an earlier timestamp
\* and after the handle took a baseline past the first wrap.
C11_Witness ==
    /\ TimestampReturned
    /\ lastTs >= 0
    /\ loc.ticks >= U32
    /\ htim["A"].last_overflow > 0
    /\ hg["A"].baseW > 0

\* C12 (spin-loop exit), as claimed: in TimerLib_DelayNS, TimerLib_DelayUS and
\* TimerLib_DelayUS_32 a poll leaves the loop exactly when its sample is at
\* least the computed target of ticks after the baseline sample: never
\* earlier, and at the first poll that is late enough, for any number of wraps
\* during the wait.
C12_SpinExit ==
    [][ (pc = "body" /\ op.name \in SpinNames /\ loc.phase = "poll"
         /\ pc' # pc)
          => ((pc' = "ret") <=> (TrueElapsed >= loc.delay_ticks)) ]_vars

\* C13 (interval result width), as claimed: TimerLib_GetInterval_us returns
\* floor(true elapsed ticks * 1000000 / clock_freq) whenever that number of
\* microseconds fits the 32-bit result, also when the true elapsed ticks
\* between the two queries do not fit 32 bits.
C13_ResultWidth ==
    (IntervalReturned /\ (g.trueDelta * USEC) \div clock_freq < U32)
        => ret = (g.trueDelta * USEC) \div clock_freq

\* C14 (conversion path agreement): when clock_freq is a multiple of 1000000,
\* TimerLib_GetInterval_us returns ticks / us_per_tick, which is what the
\* scaled path ticks * 1000000 / clock_freq gives for the same ticks, and
\* nothing is rounded away when ticks is a multiple of us_per_tick; the same
\* for TimerLib_GetInterval_ns when clock_freq is a multiple of 1000000000.
C14_PathsAgree ==
    /\ (pc = "ret" /\ op.name = "GetInterval_us" /\ clock_freq % USEC = 0) =>
          /\ ret = Interval_us_Exact(loc.ticks)
          /\ ret = Interval_us_Scaled(loc.ticks)
          /\ ret = (loc.ticks * USEC) \div clock_freq
          /\ (loc.ticks % optim.us_per_tick = 0
                => ret * optim.us_per_tick = loc.ticks)
    /\ (pc = "ret" /\ op.name = "GetInterval_ns" /\ clock_freq % NSEC = 0) =>
          /\ ret = Interval_ns_Exact(loc.ticks)
          /\ ret = Interval_ns_Scaled(loc.ticks)
          /\ ret = (loc.ticks * NSEC) \div clock_freq
          /\ (loc.ticks % optim.ns_per_tick = 0
                => ret * optim.ns_per_tick = loc.ticks)

\* A microsecond query at two ticks per microsecond whose tick count is odd
\* and whose product with 1000000 does not fit 32 bits.
C14_Witness ==
    /\ pc = "ret"
    /\ op.name = "GetInterval_us"
    /\ optim.us_optimized
    /\ optim.us_per_tick = 2
    /\ loc.ticks % 2 = 1
    /\ loc.ticks * USEC >= U32
    /\ ret > 0

\* The value of a float or double result in units of Kilo^-3 (nanoseconds).
InNano(r) == r.mant * Kilo ^ (r.exp + 3)

SecondsNames ==
    {"GetInterval_sf", "GetInterval_df", "GetTimestamp_sf", "GetTimestamp_df"}

\* C15 (seconds-valued queries), as claimed: on both paths each of
\* TimerLib_GetTimestamp_sf, TimerLib_GetTimestamp_df, TimerLib_GetInterval_sf
\* and TimerLib_GetInterval_df returns the integer microsecond count of its
\* ticks times 1e-6, or the integer nanosecond count of its ticks times 1e-9.
C15_SecondsScaled ==
    (pc = "ret" /\ op.name \in SecondsNames) =>
        \/ InNano(ret) = Kilo * ((loc.ticks * USEC) \div clock_freq)
        \/ InNano(ret) = (loc.ticks * NSEC) \div clock_freq

\* The notifications between the baseline of the handle and the sample of the
\* query that is about to compute its ticks.
WrapsSinceBaseline == g.cntW - hg[op.h].baseW

C18_RetryBounded ==
    /\ [][ g.watch =>
             /\ (pc = "s_ovf" /\ pc' # pc)
                   => pc' = "s_cnt" /\ loc'.ovf = overflow_counter
             /\ (pc = "s_cnt" /\ pc' # pc)
                   => pc' = "s_chk" /\ loc'.cnt = cnt /\ loc'.ovf = loc.ovf
             /\ (pc = "s_chk" /\ pc' # pc)
                   => /\ pc' \in {"s_ovf", "body"}
                      /\ pc' = "s_ovf" <=> loc.ovf # overflow_counter
                      /\ wraps = g.iterW => pc' = "body"
                      /\ g'.tries <= wraps - g.loopW ]_vars
    /\ [] (g.watch => g.tries <= wraps - g.loopW)
    /\ (g.watch /\ pc \in {"s_ovf", "s_cnt", "s_chk", "body"}) ~> (pc = "ret")

\* A query that returned after its sampling loop was repeated twice, each
\* time for a notification of its own.
C18_Witness ==
    /\ pc = "ret"
    /\ op.name = "GetInterval_us"
    /\ g.watch
    /\ g.tries = 2
    /\ wraps - g.loopW = 2

\* The state in which calculate_ticks compares the sample with the baseline.
AtCalculateTicks == pc = "body" /\ op.name = "GetInterval_us"

\* C19 (no underflow in the regressed branch), as claimed: whenever
\* calculate_ticks finds current_cnt < last_cnt the sampled overflow count is
\* above the handle's last_overflow, so current_ovf - last_overflow - 1 is not
\* negative; in the other branch current_ovf >= last_overflow.
C19_NoUnderflow ==
    AtCalculateTicks =>
        IF loc.cnt < htim[op.h].last_cnt
        THEN /\ loc.ovf > htim[op.h].last_overflow
             /\ loc.ovf - htim[op.h].last_overflow - 1 >= 0
        ELSE loc.ovf >= htim[op.h].last_overflow

\* C19, amended: the same while fewer than 2^32 wraps were notified since
\* TimerLib_GlobalInit, so that overflow_counter has not wrapped around; the
\* borrow then never wraps delta_ovf, and the delta computed is the true one
\* in 32 bits.
C19_NoUnderflowUntilCounterWraps ==
    (AtCalculateTicks /\ wraps < U32) =>
        /\ IF loc.cnt < htim[op.h].last_cnt
           THEN /\ loc.ovf > htim[op.h].last_overflow
                /\ loc.ovf - htim[op.h].last_overflow - 1 >= 0
           ELSE loc.ovf >= htim[op.h].last_overflow
        /\ delta_ovf(htim[op.h], loc.cnt, loc.ovf) + htim[op.h].last_overflow
              + (IF loc.cnt < htim[op.h].last_cnt THEN 1 ELSE 0) = loc.ovf
        /\ calculate_ticks(htim[op.h], loc.cnt, loc.ovf)
              = u32(SampleTime
                    - (hg[op.h].baseW * arr_value + htim[op.h].last_cnt))

\* The regressed branch with exactly one wrap since the baseline.
C19_Witness ==
    /\ AtCalculateTicks
    /\ wraps < U32
    /\ loc.cnt < htim[op.h].last_cnt
    /\ loc.ovf = htim[op.h].last_overflow + 1
    /\ htim[op.h].last_overflow > 0
====
